---- MODULE Spec2Model ----
(***************************************************************************)
(* PDF problem import pipeline of the test platform                        *)
(* (backend/pdfImport.js, backend/answerUtils.js).                         *)
(*                                                                         *)
(* One importPdfToDatabase call is modelled as a state machine whose       *)
(* steps are the pieces of code between two awaits on the generative       *)
(* backend, a timer or the database transaction.                           *)
(*                                                                         *)
(* A text is a sequence of tokens.  A token stands for a fragment of the   *)
(* extracted text together with what the regular expressions of the code   *)
(* read from it: a line-start problem marker "N." (kind "num"), a body     *)
(* fragment (kind "txt", with its numeric literals, "Circle X" mentions    *)
(* and words), white space (kind "ws"), a section header such as           *)
(* "Target Round" (kind "sec"), a copyright footer (kind "foot").          *)
(***************************************************************************)
EXTENDS Integers, Sequences, FiniteSets, TLC

(***************************************************************************)
(* Tokens and texts                                                        *)
(***************************************************************************)
Tok(k, s, n, len, numbers, substr, circles, words) ==
    [k |-> k, s |-> s, n |-> n, len |-> len, numbers |-> numbers,
     substr |-> substr, circles |-> circles, words |-> words]

\* "N. " at line start (also "Problem N." after the rewrite of
\* splitIntoProblems); its numeral is a numeric literal of the text
NumTok(n) == Tok("num", "N.", n, 3, {n}, {n}, <<>>, {})
WsTok == Tok("ws", " ", 0, 1, {}, {}, <<>>, {})
SecTok == Tok("sec", "Target Round", 0, 12, {}, {}, <<>>, {"target", "round"})
FootTok == Tok("foot", "Copyright 2021 MC. All rights reserved", 0, 38, {2021},
               {2021, 202, 20, 21, 2, 0, 1}, <<>>,
               {"copyright", "2021", "mc", "all", "rights", "reserved"})
HeadTok == Tok("txt", "2021 Mock National Competition Sprint Round ...", 0, 110, {2021},
               {2021, 202, 20, 21, 2, 0, 1}, <<>>,
               {"2021", "mock", "national", "competition", "sprint", "round"})
LongHeadTok == [HeadTok EXCEPT !.len = 600]

\* Body fragments of problems: the fragment, its length, the numeric
\* literals of its normalised form, the numerals that occur in it as
\* substrings, its "Circle X" mentions in order, its words
CircleD == Tok("txt", "Circle D has radius 5 cm. What is its area?", 0, 43, {5}, {5},
               <<"d">>, {"circle", "has", "radius", "cm", "what", "is", "its", "area"})
CircleB == Tok("txt", "Circle B has radius 5 cm. What is its area?", 0, 43, {5}, {5},
               <<"b">>, {"circle", "has", "radius", "cm", "what", "is", "its", "area"})
Disk == Tok("txt", "Find the area of the disk.", 0, 26, {}, {},
            <<>>, {"find", "the", "area", "of", "disk"})
SumQ == Tok("txt", "What is 12 plus 30?", 0, 19, {12, 30}, {12, 30, 1, 2, 3, 0},
            <<>>, {"what", "is", "12", "plus", "30"})
Stray == Tok("txt", "page", 0, 4, {}, {}, <<>>, {"page"})

\* fragments with several "Circle X" mentions, a mention in lower case (the
\* pattern is case-insensitive), word sets of five and three words, a
\* fragment without a word of three characters, repeated numeric literals
TwoCircles == Tok("txt", "Circle A meets Circle B.", 0, 24, {}, {},
                  <<"a", "b">>, {"circle", "meets"})
CircleCA == Tok("txt", "Circle C meets Circle A.", 0, 24, {}, {},
                <<"c", "a">>, {"circle", "meets"})
LowerD == Tok("txt", "the circle d", 0, 12, {}, {}, <<"d">>, {"the", "circle"})
Total5 == Tok("txt", "Find the total cost paid.", 0, 25, {}, {},
              <<>>, {"find", "the", "total", "cost", "paid"})
Total3 == Tok("txt", "Find the total.", 0, 15, {}, {}, <<>>, {"find", "the", "total"})
Sum3 == Tok("txt", "Find the sum.", 0, 13, {}, {}, <<>>, {"find", "the", "sum"})
Short == Tok("txt", "12 cm is 30", 0, 11, {12, 30}, {12, 30, 1, 2, 3, 0},
             <<>>, {"12", "cm", "is", "30"})
Repeats == Tok("txt", "5 + 5 + 5 + 7", 0, 13, {5, 7}, {5, 7}, <<>>, {})
Fives == Tok("txt", "5 + 5 + 5", 0, 9, {5}, {5}, <<>>, {})

RECURSIVE TextLen(_)
TextLen(t) == IF t = <<>> THEN 0 ELSE Head(t).len + TextLen(Tail(t))

RECURSIVE TrimStart(_)
TrimStart(t) == IF t # <<>> /\ Head(t).k = "ws" THEN TrimStart(Tail(t)) ELSE t

RECURSIVE TrimEnd(_)
TrimEnd(t) ==
    IF t # <<>> /\ t[Len(t)].k = "ws" THEN TrimEnd(SubSeq(t, 1, Len(t) - 1)) ELSE t

\* String.prototype.trim
Trim(t) == TrimEnd(TrimStart(t))

\* index of the first token of kind k, 0 when there is none
FirstOf(t, k) ==
    IF \E i \in 1..Len(t) : t[i].k = k
    THEN CHOOSE i \in 1..Len(t) : t[i].k = k /\ \A j \in 1..(i - 1) : t[j].k # k
    ELSE 0

(***************************************************************************)
(* splitIntoProblems                                                       *)
(***************************************************************************)
\* the footer pattern removes everything from the copyright line on
StripFooter(raw) ==
    IF FirstOf(raw, "foot") = 0 THEN raw ELSE SubSeq(raw, 1, FirstOf(raw, "foot") - 1)

MinRawLen == 10

\* faulty variant of PushProblem: the block keeps the numeral of its marker
PushProblemSourceNumeral(problems, raw) ==
    IF TextLen(raw) > MinRawLen
    THEN Append(problems, [number |-> raw[1].n, raw |-> raw])
    ELSE problems

\* seq++; problems.push({ number: seq, raw })
PushProblem(problems, raw) ==
    IF TextLen(raw) > MinRawLen
    THEN Append(problems, [number |-> Len(problems) + 1, raw |-> raw])
    ELSE problems

\* the while loop over the marker matches; i scans the text, lastIndex is
\* the position of the last marker, lastNum its numeral
RECURSIVE SplitLoop(_, _, _, _, _)
SplitLoop(text, i, lastIndex, lastNum, problems) ==
    IF i > Len(text)
    THEN IF lastNum > 0
         THEN PushProblem(problems,
                          Trim(StripFooter(Trim(SubSeq(text, lastIndex, Len(text))))))
         ELSE problems
    ELSE IF text[i].k = "num"
         THEN SplitLoop(text, i + 1, i, text[i].n,
                        IF lastNum > 0
                        THEN PushProblem(problems, Trim(SubSeq(text, lastIndex, i - 1)))
                        ELSE problems)
         ELSE SplitLoop(text, i + 1, lastIndex, lastNum, problems)

splitIntoProblems(text) == SplitLoop(text, 1, 1, 0, <<>>)

(***************************************************************************)
(* Section trimming of importPdfToDatabase                                 *)
(***************************************************************************)
MinSectionOffset == 500
MinTextLen == 100

\* text.search(nextSection): character offset of the first section header,
\* -1 when there is none
SearchSection(text) ==
    IF FirstOf(text, "sec") = 0 THEN -1
    ELSE TextLen(SubSeq(text, 1, FirstOf(text, "sec") - 1))

TrimSection(text) ==
    IF SearchSection(text) > MinSectionOffset
    THEN SubSeq(text, 1, FirstOf(text, "sec") - 1)
    ELSE text

(***************************************************************************)
(* parseAnswerKey: the key text is a sequence of lines; a line that the    *)
(* pattern ^\s*(\d+)[.):]\s*(.+)$ matches has ok = TRUE, its numeral n and  *)
(* its answer a after trim and white-space collapse                        *)
(***************************************************************************)
KeyLine(n, a) == [ok |-> TRUE, n |-> n, a |-> a]
JunkLine == [ok |-> FALSE, n |-> 0, a |-> ""]

RECURSIVE ParseKeyLoop(_, _)
ParseKeyLoop(lines, map) ==
    IF lines = <<>> THEN map
    ELSE ParseKeyLoop(Tail(lines),
                      IF Head(lines).ok /\ Head(lines).a # ""
                      THEN (Head(lines).n :> Head(lines).a) @@ map
                      ELSE map)

parseAnswerKey(lines) == ParseKeyLoop(lines, <<>>)

(***************************************************************************)
(* parseAnswerToNumber (answerUtils.js)                                    *)
(***************************************************************************)
Val(n, d) == [t |-> "number", n |-> n, d |-> d]
NaN == [t |-> "number", n |-> 0, d |-> 0]
Infinity == [t |-> "number", n |-> 1, d |-> 0]
NULL == [t |-> "null", n |-> 0, d |-> 0]
Thrown == [t |-> "throw", n |-> 0, d |-> 0]

\* the four replace calls that turn the radical shorthands into sqrt(...)
RewriteRadicals(s) ==
    CASE s = "sqrt16" -> "sqrt(16)"
      [] s = "2sqrt9" -> "2*sqrt(9)"
      [] OTHER -> s

\* mathjs evaluate on the expressions used here
evaluate(expr) ==
    CASE expr = "7" -> Val(7, 1)
      [] expr = "42" -> Val(42, 1)
      [] expr = "0" -> Val(0, 1)
      [] expr = "3/4" -> Val(3, 4)
      [] expr = "sqrt(16)" -> Val(4, 1)
      [] expr = "2*sqrt(9)" -> Val(6, 1)
      [] expr = "1/0" -> Infinity
      [] expr = "0/0" -> NaN
      \* the expression language has functions and variables
      [] expr = "abs(-7)" -> Val(7, 1)
      [] expr = "x=7" -> Val(7, 1)
      [] OTHER -> Thrown

parseAnswerToNumber(input) ==
    IF input = "" THEN NULL
    ELSE LET val == evaluate(RewriteRadicals(input))
         IN IF val.t = "number" /\ val # NaN THEN val ELSE NULL

(***************************************************************************)
(* extractCritical and validateFidelity                                    *)
(***************************************************************************)
RECURSIVE Dedupe(_, _)
Dedupe(seq, seen) ==
    IF seq = <<>> THEN <<>>
    ELSE IF Head(seq) \in seen THEN Dedupe(Tail(seq), seen)
         ELSE <<Head(seq)>> \o Dedupe(Tail(seq), seen \cup {Head(seq)})

RECURSIVE ConcatCircles(_)
ConcatCircles(text) ==
    IF text = <<>> THEN <<>> ELSE Head(text).circles \o ConcatCircles(Tail(text))

\* numbers: Set of the numeric literals; circles: Set (in insertion order) of
\* the letters X of the "Circle X" mentions; words: Set of the tokens of
\* two or more characters
extractCriticalEveryMention(text) ==
    [numbers |-> UNION {text[i].numbers : i \in 1..Len(text)},
     circles |-> ConcatCircles(text),
     words |-> UNION {text[i].words : i \in 1..Len(text)}]

extractCritical(text) ==
    [numbers |-> UNION {text[i].numbers : i \in 1..Len(text)},
     circles |-> Dedupe(ConcatCircles(text), {}),
     words |-> UNION {text[i].words : i \in 1..Len(text)}]

\* aiOutput.includes(n)
Includes(text, n) == \E i \in 1..Len(text) : n \in text[i].substr

Msg(kind, num, a, b) == [kind |-> kind, num |-> num, a |-> a, b |-> b]

RECURSIVE CircleWarnings(_, _, _)
CircleWarnings(srcCircles, outCircles, problemNum) ==
    IF srcCircles = <<>> THEN <<>>
    ELSE LET letter == Head(srcCircles)
             wrong == SelectSeq(outCircles, LAMBDA x : x # letter)
             rest == CircleWarnings(Tail(srcCircles), outCircles, problemNum)
         IN IF \E i \in 1..Len(outCircles) : outCircles[i] = letter
            THEN rest
            ELSE IF Len(wrong) > 0
                 THEN <<Msg("circle_renamed", problemNum, letter, wrong[1])>> \o rest
                 ELSE <<Msg("circle_missing", problemNum, letter, "")>> \o rest

\* words of three or more characters
IsLongWord(w) == w \notin {"is", "cm", "of", "mc", "12", "30"}

validateFidelityAtMost(sourceRaw, aiOutput, problemNum) ==
    IF sourceRaw = <<>> \/ aiOutput = <<>> THEN <<>>
    ELSE LET src == extractCritical(sourceRaw)
             out == extractCritical(aiOutput)
             srcWords == {w \in src.words : IsLongWord(w)}
             overlap == Cardinality(srcWords \cap out.words)
             \* ratio < 0.6, with ratio = 1 for a source without words
             lowOverlap == Cardinality(srcWords) > 0
                           /\ 10 * overlap <= 6 * Cardinality(srcWords)
             missingNums == {n \in src.numbers :
                                n \notin out.numbers /\ ~Includes(aiOutput, n)}
             \* missingNums.length > srcNums.length * 0.3
             manyMissing == 10 * Cardinality(missingNums) > 3 * Cardinality(src.numbers)
         IN CircleWarnings(src.circles, out.circles, problemNum)
            \o (IF lowOverlap THEN <<Msg("low_overlap", problemNum, "", "")>> ELSE <<>>)
            \o (IF manyMissing THEN <<Msg("numbers_missing", problemNum, "", "")>> ELSE <<>>)

validateFidelity(sourceRaw, aiOutput, problemNum) ==
    IF sourceRaw = <<>> \/ aiOutput = <<>> THEN <<>>
    ELSE LET src == extractCritical(sourceRaw)
             out == extractCritical(aiOutput)
             srcWords == {w \in src.words : IsLongWord(w)}
             overlap == Cardinality(srcWords \cap out.words)
             \* ratio < 0.6, with ratio = 1 for a source without words
             lowOverlap == Cardinality(srcWords) > 0
                           /\ 10 * overlap < 6 * Cardinality(srcWords)
             missingNums == {n \in src.numbers :
                                n \notin out.numbers /\ ~Includes(aiOutput, n)}
             \* missingNums.length > srcNums.length * 0.3
             manyMissing == 10 * Cardinality(missingNums) > 3 * Cardinality(src.numbers)
         IN CircleWarnings(src.circles, out.circles, problemNum)
            \o (IF lowOverlap THEN <<Msg("low_overlap", problemNum, "", "")>> ELSE <<>>)
            \o (IF manyMissing THEN <<Msg("numbers_missing", problemNum, "", "")>> ELSE <<>>)

(***************************************************************************)
(* Backend errors and their classification in callAI                       *)
(***************************************************************************)
NoErr == ""

\* error texts the backend call can fail with
ErrTexts == {"models/gemini is NOT_FOUND", "model not found", "RESOURCE_EXHAUSTED",
             "rate limit exceeded", "404 quota", "fetch failed"}

\* /NOT_FOUND|404|not found/i
is404(errStr) == errStr \in {"models/gemini is NOT_FOUND", "model not found", "404 quota"}

\* /RESOURCE_EXHAUSTED|quota|429|rate.?limit/i
is429(errStr) == errStr \in {"RESOURCE_EXHAUSTED", "rate limit exceeded", "404 quota"}

\* /NOT_FOUND|404|RESOURCE_EXHAUSTED|quota|429/i
tryNext(errStr) == errStr \in {"models/gemini is NOT_FOUND", "RESOURCE_EXHAUSTED", "404 quota"}

NumModels == 5
MaxAttempts == 3
RateLimitSleepMs == 20000
RetrySleepMs == 2000
MAX_CORRECTIONS == 1
CorrectionPauseMs == 500

(***************************************************************************)
(* Backend responses and parseContentToResults                             *)
(***************************************************************************)
\* one object of the response; hasNum = FALSE: no "number" field;
\* topics.arr = FALSE: no "topics" array
Item(hasNum, number, questionLatex, answer, topics) ==
    [hasNum |-> hasNum, number |-> number, questionLatex |-> questionLatex,
     answer |-> answer, topics |-> topics]

Topics(list) == [arr |-> TRUE, list |-> list]
NoTopics == [arr |-> FALSE, list |-> <<>>]

\* a LaTeX command as written in the text of a response; n is the number of
\* backslashes written before its name
RawCmd(name) == Tok("rawcmd", name, 1, Len(name) + 1, {}, {}, <<>>, {})

\* in a parsed string: the command with its backslash
LitCmd(name) == Tok("cmd", name, 0, Len(name) + 1, {}, {}, <<>>, {})

\* in a parsed string: the control character of the escape (\b \f \n \r
\* \t), then the rest of the name
CtlThenRest(name) == Tok("ctl", name, 0, Len(name), {}, {}, <<>>, {})

FirstLetter(name) ==
    CASE name = "pi" -> "p"
      [] name = "frac" -> "f"
      [] name = "neq" -> "n"
      [] name = "times" -> "t"
      [] name = "beta" -> "b"
      [] name = "rho" -> "r"
      [] name = "underline" -> "u"

\* the text of a response.  fence: it is wrapped in ```json ... ```;
\* syntax = "strict": JSON.parse accepts it once its escapes are valid,
\* "loose": only after jsonrepair, "garbage": jsonrepair rejects it;
\* isArray = FALSE: the text is a single object, items[1]
Response(fence, syntax, isArray, items) ==
    [fence |-> fence, syntax |-> syntax, isArray |-> isArray, items |-> items]

\* out = '[]' of callAI
EmptyArrayText == Response(FALSE, "strict", TRUE, <<>>)

\* rawContent.replace(/^```json?\s*|\s*```$/g, '').trim()
StripFences(c) == [c EXCEPT !.fence = FALSE]

\* a string as element of the parsed array: it has none of the fields
StringElement == Item(FALSE, 0, <<>>, "", NoTopics)

\* jsonStr.match(/\[[\s\S]*\]/): the text from the first "[" to the last
\* "]".  For an array that is the array; for a single object it is the
\* array of its "topics" field when it has one (the strings of the list)
ArrayMatch(c) ==
    IF c.isArray \/ c.items = <<>> THEN c
    ELSE IF c.items[1].topics.arr
         THEN [c EXCEPT !.isArray = TRUE,
                        !.items = [k \in 1..Len(c.items[1].topics.list) |-> StringElement]]
         ELSE c

\* the two replace calls double the backslash of \u not followed by four
\* hex digits (no name used here has them) and of every character outside
\* ["\\/bfnrtu]
NeedsDoubling(name) ==
    FirstLetter(name) = "u" \/ FirstLetter(name) \notin {"b", "f", "n", "r", "t", "u"}

FixEscapes(str) ==
    [j \in 1..Len(str) |->
        IF str[j].k = "rawcmd" /\ str[j].n = 1 /\ NeedsDoubling(str[j].s)
        THEN [str[j] EXCEPT !.n = 2]
        ELSE str[j]]

\* the string JSON.parse gives for a string of the text
Unescape(str) ==
    [j \in 1..Len(str) |->
        IF str[j].k # "rawcmd" THEN str[j]
        ELSE IF str[j].n = 2 THEN LitCmd(str[j].s)
        ELSE CtlThenRest(str[j].s)]

\* the parsed value of the items of the text
JsonParse(list) ==
    [i \in 1..Len(list) |->
        [list[i] EXCEPT !.questionLatex = Unescape(FixEscapes(@))]]

\* ok = FALSE: it throws.  strictParses, repairs: the JSON.parse and
\* jsonrepair calls made, parses: all JSON.parse calls
parseContentToResults(rawContent) ==
    LET jsonStr == ArrayMatch(StripFences(rawContent))
        strict == jsonStr.syntax = "strict"
        value == JsonParse(jsonStr.items)
    IN [ok |-> jsonStr.syntax # "garbage",
        arr |-> IF jsonStr.syntax = "garbage" THEN <<>>
                ELSE IF jsonStr.isArray THEN value ELSE <<value[1]>>,
        repairs |-> IF strict THEN 0 ELSE 1,
        parses |-> IF strict THEN 1 ELSE IF jsonStr.syntax = "loose" THEN 2 ELSE 1]

(***************************************************************************)
(* processFullTextWithAI: one iteration of the correction loop             *)
(***************************************************************************)
Zero == Val(0, 1)

\* faulty variant of CandidateAnswer: the answer of the backend is preferred
CandidateAnswerBackendFirst(item, num, answerMap) ==
    IF item.answer # "" THEN item.answer
    ELSE IF num \in DOMAIN answerMap THEN answerMap[num] ELSE ""

\* the answer text of a candidate: the key entry of its number when there
\* is one, else the answer field of the backend
CandidateAnswer(item, num, answerMap) ==
    IF num \in DOMAIN answerMap THEN answerMap[num] ELSE item.answer

\* question.replace(/\\neq\b/g, '\\ne'); the texts used here have no
\* "cost \7" for the second replace call to change
FixLatex(question) ==
    [j \in 1..Len(question) |->
        IF question[j] = LitCmd("neq") THEN LitCmd("ne") ELSE question[j]]

\* faulty variant of InvalidAnswer: an empty answer is rejected as well
InvalidAnswerAlsoEmpty(answerNum, answer) == answerNum = NULL

\* if (answerNum === null && answer !== '')
InvalidAnswer(answerNum, answer) == answerNum = NULL /\ answer # ""

\* the loop over the items of the response; acc holds results and batchErrors
RECURSIVE CandidateLoop(_, _, _, _)
CandidateLoop(items, i, answerMap, acc) ==
    IF i > Len(items) THEN acc
    ELSE LET item == items[i]
             num == IF item.hasNum THEN item.number ELSE i
             answer == CandidateAnswer(item, num, answerMap)
             answerNum == parseAnswerToNumber(answer)
             topics == IF item.topics.arr THEN item.topics.list ELSE <<"Arithmetic">>
             question == Trim(item.questionLatex)
             fixed == FixLatex(question)
         IN IF InvalidAnswer(answerNum, answer)
            THEN CandidateLoop(items, i + 1, answerMap,
                     [acc EXCEPT !.batchErrors =
                          Append(@, Msg("invalid_answer", num, answer, ""))])
            ELSE IF question = <<>>
                 THEN CandidateLoop(items, i + 1, answerMap, acc)
                 ELSE CandidateLoop(items, i + 1, answerMap,
                          [acc EXCEPT !.results =
                               Append(@, [number |-> num,
                                          question |-> fixed,
                                          answer |-> IF answerNum # NULL THEN answerNum
                                                     ELSE Zero,
                                          topics |-> topics,
                                          source |-> num])])

\* the loop that validates results[i] against sourceProblems[i]
RECURSIVE FidelityLoop(_, _, _)
FidelityLoop(results, sourceProblems, i) ==
    IF i > Len(results) THEN <<>>
    ELSE (IF i <= Len(sourceProblems)
          THEN validateFidelity(sourceProblems[i].raw, results[i].question,
                                results[i].number)
          ELSE <<>>)
         \o FidelityLoop(results, sourceProblems, i + 1)

\* results, batchErrors and fidelityWarnings at the end of the loop body,
\* before the decision to stop or to re-prompt
RoundOf(acc, sourceProblems) ==
    [results |-> acc.results,
     batchErrors |-> IF Len(sourceProblems) > Len(acc.results)
                     THEN Append(acc.batchErrors,
                                 Msg("count", 0, ToString(Len(sourceProblems)),
                                     ToString(Len(acc.results))))
                     ELSE acc.batchErrors,
     fidelityWarnings |-> FidelityLoop(acc.results, sourceProblems, 1)]

Round(list, sourceProblems, answerMap) ==
    CHOOSE r \in {RoundOf(acc, sourceProblems) :
                     acc \in {CandidateLoop(list, 1, answerMap,
                                            [results |-> <<>>, batchErrors |-> <<>>])}} :
        TRUE

\* faulty variant of LoopEnds: the cap is compared with > instead of >=
LoopEndsLate(fidelityWarnings, correctionAttempt) ==
    fidelityWarnings = <<>> \/ correctionAttempt > MAX_CORRECTIONS

\* the loop ends when there is no warning or the cap is reached
LoopEnds(fidelityWarnings, correctionAttempt) ==
    fidelityWarnings = <<>> \/ correctionAttempt >= MAX_CORRECTIONS

(***************************************************************************)
(* Database: folders, tags, problems, problem_tags                         *)
(***************************************************************************)
\* the names ensureTags inserts, in the order of ORDER BY name
TagOrder == <<"Algebra", "Arithmetic", "Counting", "Geometry", "Number Theory",
              "Probability">>
TagNames == {TagOrder[i] : i \in 1..Len(TagOrder)}

InitialDb == [folders |-> <<"Uncategorized">>, tags |-> {},
              problems |-> <<>>, problemTags |-> {}]

\* extractSourceName: the title line of the header, or the fallback name
extractSourceName(text) ==
    IF text # <<>> /\ text[1].k = "txt" /\ text[1].len >= 10
    THEN text[1].s ELSE "Imported from PDF"

\* SELECT id FROM folders WHERE name = $1, else INSERT; the id is the
\* position of the row
FolderIdOf(d, name) ==
    IF \E i \in 1..Len(d.folders) : d.folders[i] = name
    THEN CHOOSE i \in 1..Len(d.folders) :
             d.folders[i] = name /\ \A j \in 1..(i - 1) : d.folders[j] # name
    ELSE Len(d.folders) + 1

GetOrCreateFolder(d, name) ==
    IF \E i \in 1..Len(d.folders) : d.folders[i] = name THEN d
    ELSE [d EXCEPT !.folders = Append(@, name)]

ensureTags(d) == [d EXCEPT !.tags = @ \cup TagNames]

\* SELECT id, name FROM tags ORDER BY name (names outside TagOrder do not
\* occur in the initial database)
AllowedTagNames(d) == SelectSeq(TagOrder, LAMBDA t : t \in d.tags)

DefaultTag(d) ==
    IF AllowedTagNames(d) # <<>> THEN AllowedTagNames(d)[1] ELSE "Arithmetic"

\* INSERT INTO problems ... RETURNING id, then one problem_tags row per tag
InsertProblem(d, question, answer, topic, tagNames, source, folderId) ==
    [d EXCEPT
       !.problems = Append(@, [question |-> question, answer |-> answer,
                               topic |-> topic, source |-> source,
                               folder |-> folderId]),
       !.problemTags = @ \cup {<<Len(d.problems) + 1, tagNames[i]>> :
                                  i \in {j \in 1..Len(tagNames) : tagNames[j] \in d.tags}}]

\* faulty variant of StoredTagNames: the topics are stored as returned
StoredTagNamesAsReturned(d, topics) ==
    IF topics = <<>> THEN <<DefaultTag(d)>> ELSE topics

\* the tag names stored for a processed candidate
StoredTagNames(d, topics) ==
    LET kept == SelectSeq(topics, LAMBDA t : t \in d.tags)
    IN IF kept = <<>> THEN <<DefaultTag(d)>> ELSE kept

\* the loop of the AI branch that stores processedList
RECURSIVE StoreLoop(_, _, _)
StoreLoop(d, processedList, folderId) ==
    IF processedList = <<>> THEN d
    ELSE LET processed == Head(processedList)
         IN StoreLoop(InsertProblem(d, processed.question, processed.answer,
                                    StoredTagNames(d, processed.topics)[1],
                                    StoredTagNames(d, processed.topics),
                                    processed.source, folderId),
                      Tail(processedList), folderId)

(***************************************************************************)
(* processProblemNoAI and the loop of the no-AI branch                     *)
(***************************************************************************)
\* faulty variant of processProblemNoAI: the question is the body of the
\* block without its leading marker
processProblemNoAIStripped(problem, answerMap) ==
    IF problem.number \notin DOMAIN answerMap
    THEN [err |-> "key_required", question |-> <<>>, answer |-> NULL]
    ELSE IF parseAnswerToNumber(answerMap[problem.number]) = NULL
         THEN [err |-> "invalid_answer", question |-> <<>>, answer |-> NULL]
         ELSE [err |-> NoErr, question |-> Tail(problem.raw),
               answer |-> parseAnswerToNumber(answerMap[problem.number])]

\* err = NoErr: the processed problem; otherwise the error thrown
processProblemNoAI(problem, answerMap) ==
    IF problem.number \notin DOMAIN answerMap
    THEN [err |-> "key_required", question |-> <<>>, answer |-> NULL]
    ELSE IF parseAnswerToNumber(answerMap[problem.number]) = NULL
         THEN [err |-> "invalid_answer", question |-> <<>>, answer |-> NULL]
         ELSE [err |-> NoErr, question |-> problem.raw,
               answer |-> parseAnswerToNumber(answerMap[problem.number])]

\* acc holds the database of the transaction, errors and imported
RECURSIVE NoAILoop(_, _, _, _)
NoAILoop(problems, answerMap, folderId, acc) ==
    IF problems = <<>> THEN acc
    ELSE LET prob == Head(problems)
             processed == processProblemNoAI(prob, answerMap)
         IN IF processed.err # NoErr
            THEN NoAILoop(Tail(problems), answerMap, folderId,
                     [acc EXCEPT !.errors =
                          Append(@, Msg(processed.err, prob.number, "", ""))])
            ELSE NoAILoop(Tail(problems), answerMap, folderId,
                     [acc EXCEPT
                        !.d = InsertProblem(@, processed.question, processed.answer,
                                            "Arithmetic", <<DefaultTag(@)>>,
                                            prob.number, folderId),
                        !.imported = @ + 1])

(***************************************************************************)
(* Inputs                                                                  *)
(***************************************************************************)
MaxBlocks == 2
MaxItems == 2

RECURSIVE SeqsUpTo(_, _)
SeqsUpTo(S, n) ==
    IF n = 0 THEN {<<>>}
    ELSE SeqsUpTo(S, n - 1)
         \cup {Append(q, x) : q \in {r \in SeqsUpTo(S, n - 1) : Len(r) = n - 1}, x \in S}

\* the text of a document: a header, then one block per body, numbered as
\* printed (1, 2, ...), then a tail
RECURSIVE Blocks(_, _)
Blocks(bodies, n) ==
    IF bodies = <<>> THEN <<>>
    ELSE <<NumTok(n), Head(bodies), WsTok>> \o Blocks(Tail(bodies), n + 1)

Doc(head, bodies, tail) == head \o <<WsTok>> \o Blocks(bodies, 1) \o tail

\* documents of the no-AI imports
Docs ==
    {Doc(<<HeadTok>>, b, <<>>) : b \in SeqsUpTo({SumQ, CircleD, Stray}, MaxBlocks)}
    \cup {Doc(<<LongHeadTok>>, b, <<SecTok, WsTok, NumTok(1), CircleD>>) :
              b \in SeqsUpTo({SumQ, CircleD}, MaxBlocks)}
    \cup {Doc(<<HeadTok>>, <<SumQ>>, <<SecTok, WsTok, NumTok(1), CircleD>>),
          Doc(<<HeadTok>>, <<SumQ>>, <<FootTok>>),
          Doc(<<Stray>>, <<SumQ>>, <<>>),
          \* a header that names a later round, and that round's section
          Doc(<<HeadTok, WsTok, SecTok, WsTok, LongHeadTok>>, <<SumQ>>,
              <<SecTok, WsTok, NumTok(1), CircleD>>)}

\* documents of the AI imports
AIDocs ==
    {Doc(<<HeadTok>>, <<>>, <<>>),
     Doc(<<HeadTok>>, <<SumQ>>, <<>>),
     Doc(<<HeadTok>>, <<SumQ, CircleD>>, <<>>),
     Doc(<<Stray>>, <<SumQ>>, <<>>)}

AnswerKeys ==
    {<<>>,
     <<JunkLine>>,
     <<KeyLine(1, "7")>>,
     <<KeyLine(1, "7"), JunkLine, KeyLine(2, "sqrt16")>>,
     <<KeyLine(1, "abc"), KeyLine(2, "3/4")>>,
     <<KeyLine(2, "3/4"), KeyLine(2, "42")>>,
     <<KeyLine(1, "1/0"), KeyLine(2, "0/0")>>,
     <<KeyLine(1, "abs(-7)"), KeyLine(2, "x=7")>>}

AIAnswerKeys ==
    {<<>>,
     <<KeyLine(1, "7")>>,
     <<KeyLine(1, "abc"), KeyLine(2, "3/4")>>}

\* the objects a response is made of
Items ==
    {Item(TRUE, 1, <<SumQ>>, "42", Topics(<<"Fractals", "Geometry">>)),
     Item(FALSE, 0, <<CircleB, RawCmd("pi"), RawCmd("frac"), RawCmd("neq"),
                      RawCmd("times"), RawCmd("beta"), RawCmd("rho"),
                      RawCmd("underline")>>, "", NoTopics),
     Item(TRUE, 2, <<WsTok>>, "sqrt16", NoTopics),
     Item(TRUE, 3, <<Disk>>, "abc", Topics(<<>>))}

\* the arrays a response lists: every object at most once
ItemLists ==
    {q \in SeqsUpTo(Items, MaxItems) :
        \A i, j \in DOMAIN q : i # j => q[i] # q[j]}

Responses ==
    {Response(FALSE, "strict", TRUE, items) : items \in ItemLists}
    \cup {Response(FALSE, "strict", FALSE, <<it>>) : it \in {i \in Items : i.number < 2}}
    \cup {Response(TRUE, "loose", TRUE, <<it>>) : it \in {i \in Items : i.number = 1}}
    \cup {Response(FALSE, "garbage", FALSE, <<>>)}

(***************************************************************************)
(* State of one importPdfToDatabase call                                   *)
(***************************************************************************)
VARIABLES
    pdf,              \* the text extractTextFromPdf returns for the PDF
    answerKeyText,    \* the lines of the pasted answer key
    useAI,
    aiConfigured,     \* ai # null: an API key is configured
    pc,               \* where the call is suspended
    failure,          \* the error importPdfToDatabase threw, NoErr if none
    text,             \* the text after section trimming
    problems,         \* splitIntoProblems(text)
    answerMap,
    errors,
    imported,
    db,               \* committed rows
    tx,               \* rows as the open transaction sees them
    client,           \* the pool client: statements issued on it, releases
    model,            \* callAI: index into models
    attempt,          \* callAI: attempt on the current model
    lastErr,          \* callAI: lastErr, NoErr for null
    sleepMs,          \* duration of the pending timer
    callSite,         \* which callAI is running: "initial" or "corrective"
    correctionAttempt,
    content,          \* the text callAI returned last
    parseCalls,       \* history: JSON.parse and jsonrepair calls made for content
    arr,              \* the parsed response of the current round
    results,
    batchErrors,
    fidelityWarnings,
    aiCalls,          \* history: callAI invocations of this import
    lastModel,        \* history: model of the last generateContent call of this
                      \* callAI, 0 before the first
    modelCalls,       \* history: calls this callAI has made on lastModel
    firstCount,       \* history: number of results of the first round
    sleptMs,          \* history: total duration of the timers of this import
    backendCalls,     \* history: generateContent calls of this import
    aiOutcome,        \* history: "returned" or "threw" once processFullTextWithAI
                      \* has ended, "none" before
    committed,        \* concurrent imports: the committed rows of the database
    imports,          \* concurrent imports: the state of each call
    store,            \* test submissions: the committed rows of the server's tables
    submits           \* test submissions: the state of each request

inputs == <<pdf, answerKeyText, useAI, aiConfigured>>
prep == <<text, problems, answerMap>>
callVars == <<model, attempt, lastErr, sleepMs, callSite>>
loopVars == <<correctionAttempt, content, parseCalls, arr, results, batchErrors, fidelityWarnings>>
hist == <<aiCalls, lastModel, modelCalls, firstCount, sleptMs, backendCalls, aiOutcome>>
shared == <<committed, imports>>
call == <<pdf, answerKeyText, useAI, aiConfigured, pc, failure, text, problems,
          answerMap, errors, imported, db, tx, client, model, attempt, lastErr, sleepMs,
          callSite, correctionAttempt, content, parseCalls, arr,
          results, batchErrors, fidelityWarnings,
          aiCalls, lastModel, modelCalls, firstCount, sleptMs, backendCalls, aiOutcome>>
server == <<store, submits>>
vars == <<call, shared, server>>

\* the folders, tags and problems tables before the first import; the
\* folders sequence has handed out id 1
EmptyTables == [folders |-> {[id |-> 1, name |-> "Uncategorized"]}, nextFolderId |-> 2,
                tags |-> {}, problems |-> {}]

NumImports == 2

\* a call that has not started
NotStarted == [pc |-> "idle", name |-> "", folderId |-> 0, folders |-> {}, tags |-> {},
               problems |-> {}]

\* the students of the teacher who made the test
Students == 1..2
NumSubmits == 2

\* one test of one problem with one tag, not yet submitted: no attempt, no
\* snapshot (0), the default ELO of the users and of the problem, no
\* student_tag_elo row (0), no elo_history row; snapshotWrites counts the
\* committed updates of tests.problem_elo_snapshot
InitialStore ==
    [attempts |-> <<>>, snapshot |-> 0, snapshotWrites |-> 0,
     problem |-> [elo |-> 1500, used |-> 0, correct |-> 0],
     userElo |-> [s \in Students |-> 1500],
     tagElo |-> [s \in Students |-> 0],
     history |-> <<>>]

\* the rows a transaction has written and not committed; it holds the lock
\* of each row it has updated
NoWrites == [snapshot |-> 0, graded |-> FALSE, problem |-> InitialStore.problem,
             userElo |-> 0, tagElo |-> 0, history |-> <<>>, attempt |-> <<>>]

\* a request that has not arrived
IdleSubmit == [pc |-> "idle", student |-> 0, outcome |-> 0, snapshot |-> 0, pelo |-> 0,
               userElo |-> 0, writes |-> NoWrites]

\* before pool.connect
NoClient == [connected |-> 0, begun |-> 0, commits |-> 0, rollbacks |-> 0, releases |-> 0]

Init ==
    /\ useAI \in BOOLEAN
    /\ aiConfigured \in BOOLEAN
    /\ pdf \in (IF useAI THEN AIDocs ELSE Docs)
    /\ answerKeyText \in (IF useAI THEN AIAnswerKeys ELSE AnswerKeys)
    /\ pc = "start"
    /\ failure = NoErr
    /\ text = <<>>
    /\ problems = <<>>
    /\ answerMap = <<>>
    /\ errors = <<>>
    /\ imported = 0
    /\ db = InitialDb
    /\ tx = InitialDb
    /\ client = NoClient
    /\ model = 1
    /\ attempt = 0
    /\ lastErr = NoErr
    /\ sleepMs = 0
    /\ callSite = "none"
    /\ correctionAttempt = 0
    /\ content = EmptyArrayText
    /\ parseCalls = [parses |-> 0, repairs |-> 0]
    /\ arr = <<>>
    /\ results = <<>>
    /\ batchErrors = <<>>
    /\ fidelityWarnings = <<>>
    /\ aiCalls = 0
    /\ lastModel = 0
    /\ modelCalls = 0
    /\ firstCount = 0
    /\ sleptMs = 0
    /\ backendCalls = 0
    /\ aiOutcome = "none"
    /\ committed = EmptyTables
    /\ imports = [i \in 1..NumImports |-> NotStarted]
    /\ store = InitialStore
    /\ submits = [i \in 1..NumSubmits |-> IdleSubmit]

(***************************************************************************)
(* importPdfToDatabase up to pool.connect: parse the key, extract and trim *)
(* the text, split it, validate the no-AI inputs                           *)
(***************************************************************************)
ValidationError(t, probs, map) ==
    IF TextLen(pdf) < MinTextLen THEN "no_text"
    ELSE IF ~useAI /\ probs = <<>> THEN "no_problems"
    ELSE IF ~useAI /\ DOMAIN map = {} THEN "key_required"
    ELSE NoErr

Validate ==
    /\ pc = "start"
    /\ LET map == parseAnswerKey(answerKeyText)
           t == TrimSection(pdf)
           probs == splitIntoProblems(t)
           err == ValidationError(t, probs, map)
       IN /\ answerMap' = map
          /\ IF TextLen(pdf) < MinTextLen
             THEN text' = text /\ problems' = problems
             ELSE text' = t /\ problems' = probs
          /\ failure' = err
          /\ pc' = IF err = NoErr THEN "begin" ELSE "thrown"
    /\ UNCHANGED <<inputs, shared, server, client, errors, imported, db, tx, callVars, loopVars, hist>>

\* pool.connect, BEGIN, folder get-or-create, ensureTags, SELECT of the tags
BeginTx ==
    /\ pc = "begin"
    /\ client' = [client EXCEPT !.connected = 1, !.begun = 1]
    /\ tx' = ensureTags(GetOrCreateFolder(db, extractSourceName(text)))
    /\ pc' = IF useAI THEN "ai" ELSE "noai"
    /\ UNCHANGED <<inputs, shared, server, failure, prep, errors, imported, db, callVars, loopVars, hist>>

(***************************************************************************)
(* AI branch                                                               *)
(***************************************************************************)
\* an error thrown by processFullTextWithAI is caught by the AI branch:
\* errors.push(err.message), then COMMIT
CaughtByImport(msg) ==
    /\ errors' = Append(errors, msg)
    /\ aiOutcome' = "threw"
    /\ pc' = "commit"

\* entry of processFullTextWithAI up to the first generateContent
StartAI ==
    /\ pc = "ai"
    /\ IF ~aiConfigured
       THEN /\ CaughtByImport(Msg("no_api_key", 0, "", ""))
            /\ UNCHANGED <<callVars, aiCalls, lastModel, modelCalls, firstCount, sleptMs,
                           backendCalls>>
       ELSE /\ pc' = "call"
            /\ model' = 1
            /\ attempt' = 0
            /\ lastErr' = NoErr
            /\ callSite' = "initial"
            /\ aiCalls' = aiCalls + 1
            /\ lastModel' = 0
            /\ modelCalls' = 0
            /\ UNCHANGED <<errors, sleepMs, firstCount, sleptMs, backendCalls, aiOutcome>>
    /\ UNCHANGED <<inputs, shared, server, client, failure, prep, imported, db, tx, loopVars>>

\* faulty variant of BreaksInnerLoop: a rate-limited error ends the attempts
\* on the model whatever the attempt
BreaksOnAnyRateLimit(err, att) == is404(err) \/ is429(err)

\* the catch block of callAI leaves the attempt loop without sleeping
BreaksInnerLoop(err, att) == is404(err) \/ (is429(err) /\ att >= MaxAttempts - 1)

\* setTimeout(r, is429 ? 20000 : 2000)
SleepFor(err) == IF is429(err) THEN RateLimitSleepMs ELSE RetrySleepMs

\* faulty variant of ThrowsAfterSleep: the error is rethrown on any attempt
ThrowsAlways(att) == TRUE

\* if (attempt >= 2) throw err
ThrowsAfterSleep(att) == att >= MaxAttempts - 1

\* callAI throws err
CallAIThrows(err) == CaughtByImport(Msg("ai_error", 0, err, ""))

\* faulty variant of AfterInnerLoop: after the last model the first is tried
\* again
AfterInnerLoopWraps(err) ==
    IF tryNext(err)
    THEN /\ model' = IF model < NumModels THEN model + 1 ELSE 1
         /\ attempt' = 0
         /\ pc' = "call"
         /\ UNCHANGED <<errors, aiOutcome>>
    ELSE /\ CallAIThrows(err)
         /\ UNCHANGED <<model, attempt>>

\* after the inner loop ended with lastErr set: next model, or throw
AfterInnerLoop(err) ==
    IF tryNext(err) /\ model < NumModels
    THEN /\ model' = model + 1
         /\ attempt' = 0
         /\ pc' = "call"
         /\ UNCHANGED <<errors, aiOutcome>>
    ELSE /\ CallAIThrows(err)
         /\ UNCHANGED <<model, attempt>>

\* a generateContent call on models[model] is made
NoteCall ==
    /\ lastModel' = model
    /\ modelCalls' = IF lastModel = model THEN modelCalls + 1 ELSE 1

\* generateContent rejects with err
CallFails(err) ==
    /\ pc = "call"
    /\ NoteCall
    /\ lastErr' = err
    /\ IF BreaksInnerLoop(err, attempt)
       THEN AfterInnerLoop(err) /\ UNCHANGED sleepMs
       ELSE /\ pc' = "sleep"
            /\ sleepMs' = SleepFor(err)
            /\ UNCHANGED <<model, attempt, errors, aiOutcome>>
    /\ UNCHANGED <<inputs, shared, server, client, failure, prep, imported, db, tx, callSite, loopVars,
                   aiCalls, firstCount, sleptMs>>

\* generateContent has settled, by a rejection
CallRejected(err) == CallFails(err) /\ UNCHANGED backendCalls

\* the timer of the catch block fires
SleepEnds ==
    /\ pc = "sleep"
    /\ sleepMs' = 0
    /\ IF ThrowsAfterSleep(attempt)
       THEN CallAIThrows(lastErr) /\ UNCHANGED attempt
       ELSE pc' = "call" /\ attempt' = attempt + 1 /\ UNCHANGED <<errors, aiOutcome>>
    /\ UNCHANGED <<inputs, shared, server, client, failure, prep, imported, db, tx, model, lastErr, callSite,
                   loopVars, aiCalls, lastModel, modelCalls, firstCount, backendCalls>>

SleepDone == SleepEnds /\ UNCHANGED sleptMs

\* generateContent resolves with content: callAI returns it and the loop
\* body runs up to its next await
CallSucceeds(out) ==
    /\ pc = "call"
    /\ NoteCall
    /\ lastErr' = NoErr
    /\ content' = out
    /\ \E parsed \in {parseContentToResults(out)} :
       LET ca == IF callSite = "initial" THEN 0 ELSE correctionAttempt + 1
       IN /\ correctionAttempt' = ca
          /\ parseCalls' = [parses |-> parsed.parses, repairs |-> parsed.repairs]
          /\ IF ~parsed.ok
             THEN /\ CaughtByImport(Msg("invalid_json", 0, "", ""))
                  /\ UNCHANGED <<arr, results, batchErrors, fidelityWarnings, firstCount>>
             ELSE \E round \in {Round(parsed.arr, splitIntoProblems(text), answerMap)} :
                  /\ arr' = parsed.arr
                  /\ results' = round.results
                  /\ fidelityWarnings' = round.fidelityWarnings
                  /\ firstCount' = IF callSite = "initial" THEN Len(round.results)
                                   ELSE firstCount
                  /\ UNCHANGED errors
                  /\ IF LoopEnds(round.fidelityWarnings, ca)
                     THEN /\ batchErrors' = round.batchErrors \o round.fidelityWarnings
                          /\ aiOutcome' = "returned"
                          /\ pc' = "store"
                     ELSE /\ batchErrors' = round.batchErrors
                          /\ aiOutcome' = aiOutcome
                          /\ pc' = "pause"
    /\ UNCHANGED <<inputs, shared, server, client, failure, prep, imported, db, tx, model, attempt, sleepMs,
                   callSite, aiCalls, sleptMs>>

\* the 500 ms timer before the corrective prompt fires: callAI starts again
PauseEnds ==
    /\ pc = "pause"
    /\ pc' = "call"
    /\ model' = 1
    /\ attempt' = 0
    /\ lastErr' = NoErr
    /\ callSite' = "corrective"
    /\ aiCalls' = aiCalls + 1
    /\ lastModel' = 0
    /\ modelCalls' = 0
    /\ UNCHANGED <<inputs, shared, server, client, failure, prep, errors, imported, db, tx, sleepMs, loopVars,
                   firstCount, backendCalls, aiOutcome>>

PauseDone == PauseEnds /\ UNCHANGED sleptMs

\* generateContent has settled, by a response
CallResolved(out) == CallSucceeds(out) /\ UNCHANGED backendCalls

\* processFullTextWithAI returned: collect its errors, store its results
StoreAI ==
    /\ pc = "store"
    /\ errors' = errors \o batchErrors
    /\ tx' = StoreLoop(tx, results, FolderIdOf(tx, extractSourceName(text)))
    /\ imported' = Len(results)
    /\ pc' = "commit"
    /\ UNCHANGED <<inputs, shared, server, client, failure, prep, db, callVars, loopVars, hist>>

(***************************************************************************)
(* no-AI branch                                                            *)
(***************************************************************************)
StoreNoAI ==
    /\ pc = "noai"
    /\ LET acc == NoAILoop(problems, answerMap, FolderIdOf(tx, extractSourceName(text)),
                           [d |-> tx, errors |-> errors, imported |-> 0])
       IN /\ tx' = acc.d
          /\ errors' = acc.errors
          /\ imported' = acc.imported
    /\ pc' = "commit"
    /\ UNCHANGED <<inputs, shared, server, client, failure, prep, db, callVars, loopVars, hist>>

\* COMMIT, then return { imported, folderId, folderName, errors }; the
\* finally block releases the client
Commit ==
    /\ pc = "commit"
    /\ db' = tx
    /\ client' = [client EXCEPT !.commits = @ + 1, !.releases = @ + 1]
    /\ pc' = "done"
    /\ UNCHANGED <<inputs, shared, server, failure, prep, errors, imported, tx, callVars, loopVars, hist>>

\* faulty variant of AfterRollback: the writes of the transaction stay
AfterRollbackKeepsWrites(before, inTx) == inTx

\* the rows of the database after ROLLBACK
AfterRollback(before, inTx) == before

\* a statement of the outer try block is rejected by the database: BEGIN
\* (begun = 0), a folder or tag statement, or COMMIT; the catch block issues
\* ROLLBACK and rethrows, the finally block releases the client
QueryFails ==
    /\ pc \in {"begin", "commit"}
    /\ \E begun \in (IF pc = "begin" THEN {0, 1} ELSE {1}) :
           client' = [client EXCEPT !.connected = 1, !.begun = begun,
                                    !.rollbacks = @ + 1, !.releases = @ + 1]
    /\ db' = AfterRollback(db, tx)
    /\ tx' = AfterRollback(db, tx)
    /\ failure' = "db_error"
    /\ pc' = "thrown"
    /\ UNCHANGED <<inputs, shared, server, prep, errors, imported, callVars, loopVars, hist>>

Next ==
    \/ Validate
    \/ BeginTx
    \/ StartAI
    \/ \E err \in ErrTexts : CallRejected(err)
    \/ SleepDone
    \/ \E out \in Responses : CallResolved(out)
    \/ PauseDone
    \/ StoreAI
    \/ StoreNoAI
    \/ Commit
    \/ QueryFails

Spec == Init /\ [][Next]_vars

(***************************************************************************)
(* Concurrent importPdfToDatabase calls on one database.  Each call runs   *)
(* its statements in its own transaction (READ COMMITTED): a statement     *)
(* sees the committed rows and the rows its own transaction wrote.  The    *)
(* extraction between the tag statements and the inserts is call-scoped    *)
(* and is not repeated here: a call stores one problem.                    *)
(***************************************************************************)
\* the folder names extractSourceName gives for the uploaded documents
SourceNames == {extractSourceName(<<HeadTok>>), extractSourceName(<<Stray>>)}

\* the rows of a table that a statement of call i sees
VisibleFolders(i) == committed.folders \cup imports[i].folders
VisibleTags(i) == committed.tags \cup imports[i].tags

\* pool.connect and BEGIN of a call for a document named name
BeginImport(i, name) ==
    /\ imports[i].pc = "idle"
    /\ imports' = [imports EXCEPT ![i].pc = "select", ![i].name = name]
    /\ UNCHANGED <<call, server, committed>>

\* SELECT id FROM folders WHERE name = $1
SelectFolder(i) ==
    /\ imports[i].pc = "select"
    /\ LET found == {f \in VisibleFolders(i) : f.name = imports[i].name}
       IN IF found = {}
          THEN imports' = [imports EXCEPT ![i].pc = "insert"]
          ELSE \E f \in found :
                   imports' = [imports EXCEPT ![i].pc = "tags", ![i].folderId = f.id]
    /\ UNCHANGED <<call, server, committed>>

\* INSERT INTO folders (name) VALUES ($1) RETURNING id; the id comes from
\* the sequence of the table, which is not transactional
InsertFolder(i) ==
    /\ imports[i].pc = "insert"
    /\ imports' = [imports EXCEPT
                      ![i].pc = "tags",
                      ![i].folderId = committed.nextFolderId,
                      ![i].folders = {[id |-> committed.nextFolderId,
                                       name |-> imports[i].name]}]
    /\ committed' = [committed EXCEPT !.nextFolderId = @ + 1]
    /\ UNCHANGED <<call, server>>

\* ensureTags: INSERT ... ON CONFLICT (name) DO NOTHING for each tag name;
\* the insert waits while another transaction holds an uncommitted row of
\* the same name (tags.name is UNIQUE)
EnsureTagsOf(i) ==
    /\ imports[i].pc = "tags"
    /\ \A j \in 1..NumImports : j # i => imports[j].tags = {}
    /\ imports' = [imports EXCEPT ![i].pc = "store",
                                  ![i].tags = TagNames \ committed.tags]
    /\ UNCHANGED <<call, server, committed>>

\* INSERT INTO problems (..., folder_id) of the problem of the call
StoreProblem(i) ==
    /\ imports[i].pc = "store"
    /\ imports' = [imports EXCEPT
                      ![i].pc = "commit",
                      ![i].problems = {[source |-> i, folder |-> imports[i].folderId]}]
    /\ UNCHANGED <<call, server, committed>>

\* COMMIT: the rows the transaction wrote become visible to every call
CommitImport(i) ==
    /\ imports[i].pc = "commit"
    /\ committed' = [committed EXCEPT
                        !.folders = @ \cup imports[i].folders,
                        !.tags = @ \cup imports[i].tags,
                        !.problems = @ \cup imports[i].problems]
    /\ imports' = [imports EXCEPT ![i].pc = "done", ![i].folders = {},
                                  ![i].tags = {}, ![i].problems = {}]
    /\ UNCHANGED <<call, server>>

\* ROLLBACK after a rejected statement: the rows of the transaction are
\* dropped, the call throws
RollbackImport(i) ==
    /\ imports[i].pc \in {"select", "insert", "tags", "store", "commit"}
    /\ imports' = [imports EXCEPT ![i].pc = "thrown", ![i].folders = {},
                                  ![i].tags = {}, ![i].problems = {}]
    /\ UNCHANGED <<call, server, committed>>

ConcurrentInit ==
    /\ Init
    /\ useAI /\ aiConfigured
    /\ pdf = Doc(<<HeadTok>>, <<>>, <<>>)
    /\ answerKeyText = <<>>

ConcurrentNext ==
    \E i \in 1..NumImports :
        \/ \E name \in SourceNames : BeginImport(i, name)
        \/ SelectFolder(i)
        \/ InsertFolder(i)
        \/ EnsureTagsOf(i)
        \/ StoreProblem(i)
        \/ CommitImport(i)
        \/ RollbackImport(i)

SpecConcurrent == ConcurrentInit /\ [][ConcurrentNext]_vars

(***************************************************************************)
(* One AI import with the time its timers take: the sleeps of callAI and   *)
(* the pause before the corrective prompt add up in sleptMs.               *)
(***************************************************************************)
SleepDoneTimed == SleepEnds /\ sleptMs' = sleptMs + sleepMs

CallRejectedCounted(err) == CallFails(err) /\ backendCalls' = backendCalls + 1

CallResolvedCounted(out) == CallSucceeds(out) /\ backendCalls' = backendCalls + 1

PauseDoneTimed == PauseEnds /\ sleptMs' = sleptMs + CorrectionPauseMs

\* responses of the backend: a faithful one, one that renames a circle
\* (a fidelity warning), one that is no JSON
TimedResponses ==
    {Response(FALSE, "strict", TRUE, <<Item(TRUE, 1, <<SumQ>>, "42", NoTopics)>>),
     Response(FALSE, "strict", TRUE, <<Item(TRUE, 1, <<SumQ>>, "42", NoTopics),
                                       Item(FALSE, 0, <<CircleB>>, "", NoTopics)>>),
     Response(FALSE, "garbage", FALSE, <<>>)}

TimedInit ==
    /\ Init
    /\ useAI
    /\ pdf = Doc(<<HeadTok>>, <<SumQ, CircleD>>, <<>>)
    /\ answerKeyText = <<>>

TimedNext ==
    \/ Validate
    \/ BeginTx
    \/ StartAI
    \/ \E err \in ErrTexts : CallRejected(err)
    \/ SleepDoneTimed
    \/ \E out \in TimedResponses : CallResolved(out)
    \/ PauseDoneTimed
    \/ StoreAI
    \/ Commit
    \/ QueryFails

SpecTimed == TimedInit /\ [][TimedNext]_vars

\* the same import with its backend calls counted and its timers not
\* timed; every backend call settles and every timer fires
CountedNext ==
    \/ Validate
    \/ BeginTx
    \/ StartAI
    \/ \E err \in ErrTexts : CallRejectedCounted(err)
    \/ SleepDone
    \/ \E out \in TimedResponses : CallResolvedCounted(out)
    \/ PauseDone
    \/ StoreAI
    \/ Commit
    \/ QueryFails

SpecCounted == TimedInit /\ [][CountedNext]_vars /\ WF_vars(CountedNext)

(***************************************************************************)
(* POST /api/tests/:id/submit (server.js).  Each request runs its          *)
(* statements in its own transaction (READ COMMITTED): a SELECT sees the   *)
(* committed rows, an UPDATE waits for the transaction that holds the row  *)
(* and then writes the row.  The test has one problem with one tag.        *)
(***************************************************************************)
\* Math.round(kFactor * (1 - expectedScore)) for ratings at most 60 apart,
\* diff = opponentRating - playerRating
Gain(diff, kFactor) ==
    IF kFactor = 16
    THEN (IF diff < -21 THEN 7 ELSE IF diff < 22 THEN 8 ELSE 9)
    ELSE (IF diff < -54 THEN 13 ELSE IF diff < -32 THEN 14 ELSE IF diff < -10 THEN 15
          ELSE IF diff < 11 THEN 16 ELSE IF diff < 33 THEN 17 ELSE IF diff < 55 THEN 18
          ELSE 19)

calculateELO(playerRating, opponentRating, outcome, kFactor) ==
    playerRating + Gain(opponentRating - playerRating, kFactor)
        - (IF outcome = 1 THEN 0 ELSE kFactor)

Attempted(student) ==
    \E k \in 1..Len(store.attempts) : store.attempts[k].student = student

\* faulty variant of UniqueViolation: test_attempts without its constraint
NoUniqueConstraint(student) == FALSE

\* UNIQUE(test_id, student_id) of test_attempts rejects the insert
UniqueViolation(student) == Attempted(student)

\* BEGIN, then the check for an attempt of the student: 400 if there is one
StartSubmit(i, student, outcome) ==
    /\ submits[i].pc = "idle"
    /\ submits' = [submits EXCEPT
                      ![i].student = student,
                      ![i].outcome = outcome,
                      ![i].pc = IF Attempted(student) THEN "rejected" ELSE "readTest"]
    /\ UNCHANGED <<call, shared, store>>

\* SELECT * FROM tests WHERE id = $1
ReadTest(i) ==
    /\ submits[i].pc = "readTest"
    /\ submits' = [submits EXCEPT ![i].snapshot = store.snapshot,
                                  ![i].pc = "readProblems"]
    /\ UNCHANGED <<call, shared, store>>

\* SELECT * FROM problems WHERE id = ANY($1); an empty snapshot is rebuilt
\* from the ELO just read
ReadProblems(i) ==
    /\ submits[i].pc = "readProblems"
    /\ submits' = [submits EXCEPT
                      ![i].pelo = store.problem.elo,
                      ![i].snapshot = IF @ = 0 THEN store.problem.elo ELSE @,
                      ![i].pc = IF submits[i].snapshot = 0 THEN "writeSnapshot"
                                ELSE "readUser"]
    /\ UNCHANGED <<call, shared, store>>

\* UPDATE tests SET problem_elo_snapshot = $1; waits for the holder of the row
WriteSnapshot(i) ==
    /\ submits[i].pc = "writeSnapshot"
    /\ \A j \in 1..NumSubmits : j # i => submits[j].writes.snapshot = 0
    /\ submits' = [submits EXCEPT ![i].writes.snapshot = submits[i].snapshot,
                                  ![i].pc = "readUser"]
    /\ UNCHANGED <<call, shared, store>>

\* SELECT elo FROM users WHERE id = $1
ReadUser(i) ==
    /\ submits[i].pc = "readUser"
    /\ submits' = [submits EXCEPT ![i].userElo = store.userElo[submits[i].student],
                                  ![i].pc = "grade"]
    /\ UNCHANGED <<call, shared, store>>

\* the loop over the problems: UPDATE problems (waits for the holder of the
\* row), INSERT INTO elo_history, the tag ELO upsert; then UPDATE users
GradeProblem(i) ==
    /\ submits[i].pc = "grade"
    /\ \A j \in 1..NumSubmits : j # i => ~submits[j].writes.graded
    /\ LET r == submits[i]
           problemElo == r.snapshot
           tempNewUserElo == calculateELO(r.userElo, problemElo, r.outcome, 32)
           newProblemElo == calculateELO(problemElo, r.userElo, 1 - r.outcome, 16)
           currentTagElo == IF store.tagElo[r.student] = 0 THEN 1500
                            ELSE store.tagElo[r.student]
       IN submits' = [submits EXCEPT
              ![i].writes.graded = TRUE,
              ![i].writes.problem = [elo |-> newProblemElo,
                                     used |-> store.problem.used + 1,
                                     correct |-> store.problem.correct + r.outcome],
              ![i].writes.history = <<[user |-> r.student, oldUser |-> r.userElo,
                                       newUser |-> tempNewUserElo,
                                       oldProblem |-> problemElo,
                                       newProblem |-> newProblemElo]>>,
              ![i].writes.tagElo = calculateELO(currentTagElo, problemElo, r.outcome, 32),
              ![i].writes.userElo = tempNewUserElo,
              ![i].pc = "insert"]
    /\ UNCHANGED <<call, shared, store>>

\* INSERT INTO test_attempts; a unique violation is caught: ROLLBACK, 500
InsertAttempt(i) ==
    /\ submits[i].pc = "insert"
    /\ IF UniqueViolation(submits[i].student)
       THEN submits' = [submits EXCEPT ![i].writes = NoWrites, ![i].pc = "failed"]
       ELSE submits' = [submits EXCEPT
                           ![i].writes.attempt =
                               <<[student |-> submits[i].student,
                                  score |-> submits[i].outcome,
                                  eloBefore |-> submits[i].userElo,
                                  eloAfter |-> submits[i].writes.userElo]>>,
                           ![i].pc = "commit"]
    /\ UNCHANGED <<call, shared, store>>

\* COMMIT: the rows the transaction wrote become the committed rows
CommitSubmit(i) ==
    /\ submits[i].pc = "commit"
    /\ LET w == submits[i].writes
       IN store' = [store EXCEPT
              !.snapshot = IF w.snapshot # 0 THEN w.snapshot ELSE @,
              !.snapshotWrites = IF w.snapshot # 0 THEN @ + 1 ELSE @,
              !.problem = w.problem,
              !.userElo[submits[i].student] = w.userElo,
              !.tagElo[submits[i].student] = w.tagElo,
              !.history = @ \o w.history,
              !.attempts = @ \o w.attempt]
    /\ submits' = [submits EXCEPT ![i].writes = NoWrites, ![i].pc = "done"]
    /\ UNCHANGED <<call, shared>>

SubmitInit ==
    /\ Init
    /\ useAI
    /\ aiConfigured
    /\ pdf = Doc(<<HeadTok>>, <<>>, <<>>)
    /\ answerKeyText = <<>>

SubmitNext ==
    \E i \in 1..NumSubmits :
        \/ \E student \in Students, outcome \in 0..1 : StartSubmit(i, student, outcome)
        \/ ReadTest(i)
        \/ ReadProblems(i)
        \/ WriteSnapshot(i)
        \/ ReadUser(i)
        \/ GradeProblem(i)
        \/ InsertAttempt(i)
        \/ CommitSubmit(i)

SpecSubmit == SubmitInit /\ [][SubmitNext]_vars

(***************************************************************************)
(* validateFidelity on its own: the fidelity loop of one round, entered    *)
(* with one source block and one kept candidate drawn from the fragments.  *)
(***************************************************************************)
MaxFragments == 2

SourceFragments == {CircleD, TwoCircles, Total5, Short, Repeats, NumTok(1)}
CandidateFragments == {CircleD, CircleB, CircleCA, LowerD, Total3, Sum3, Fives, SumQ}

FidelityInit ==
    /\ pdf = <<>>
    /\ answerKeyText = <<>>
    /\ useAI = TRUE
    /\ aiConfigured = TRUE
    /\ pc = "validate"
    /\ failure = NoErr
    /\ text = <<>>
    /\ \E raw \in SeqsUpTo(SourceFragments, MaxFragments) \ {<<>>} :
           problems = <<[number |-> 1, raw |-> raw]>>
    /\ answerMap = <<>>
    /\ errors = <<>>
    /\ imported = 0
    /\ db = InitialDb
    /\ tx = InitialDb
    /\ client = NoClient
    /\ model = 1
    /\ attempt = 0
    /\ lastErr = NoErr
    /\ sleepMs = 0
    /\ callSite = "initial"
    /\ correctionAttempt = 0
    /\ content = EmptyArrayText
    /\ parseCalls = [parses |-> 0, repairs |-> 0]
    /\ arr = <<>>
    /\ \E question \in SeqsUpTo(CandidateFragments, MaxFragments) \ {<<>>}, num \in 1..2 :
           results = <<[number |-> num, question |-> question, answer |-> Zero,
                        topics |-> <<"Arithmetic">>, source |-> num]>>
    /\ batchErrors = <<>>
    /\ fidelityWarnings = <<>>
    /\ aiCalls = 1
    /\ lastModel = 1
    /\ modelCalls = 1
    /\ firstCount = 0
    /\ sleptMs = 0
    /\ backendCalls = 0
    /\ aiOutcome = "none"
    /\ committed = EmptyTables
    /\ imports = [i \in 1..NumImports |-> NotStarted]
    /\ store = InitialStore
    /\ submits = [i \in 1..NumSubmits |-> IdleSubmit]

\* for (let i = 0; i < results.length; i++) { ... validateFidelity ... }
ValidateResults ==
    /\ pc = "validate"
    /\ fidelityWarnings' = FidelityLoop(results, problems, 1)
    /\ pc' = "validated"
    /\ UNCHANGED <<inputs, shared, server, failure, text, problems, answerMap, errors, imported,
                   db, tx, client, callVars, correctionAttempt, content, parseCalls, arr,
                   results, batchErrors, hist>>

FidelityNext == ValidateResults

SpecFidelity == FidelityInit /\ [][FidelityNext]_vars

(***************************************************************************)
(* Properties                                                              *)
(***************************************************************************)
\* the three classes of a backend error, model-not-found taking precedence
\* as in the catch block of callAI
NotFoundClass(err) == err # NoErr /\ is404(err)
RateLimitedClass(err) == err # NoErr /\ ~is404(err) /\ is429(err)
OtherClass(err) == err # NoErr /\ ~is404(err) /\ ~is429(err)

\* this step is a generateContent call that fails / succeeds
CallFailed == pc = "call" /\ lastErr' # NoErr /\ modelCalls' >= 1
             /\ (lastModel' # lastModel \/ modelCalls' # modelCalls)
CallSucceeded == pc = "call" /\ lastErr' = NoErr
                 /\ (lastModel' # lastModel \/ modelCalls' # modelCalls)

\* this step makes callAI throw
CallAIThrew == aiOutcome = "none" /\ aiOutcome' = "threw" /\ pc \in {"call", "sleep"}

\* the value the specification gives for an answer text
ExpectedValue(a) ==
    CASE a = "7" -> Val(7, 1)
      [] a = "42" -> Val(42, 1)
      [] a = "3/4" -> Val(3, 4)
      [] a = "sqrt16" -> Val(4, 1)
      [] OTHER -> NULL

\* C1: in the AI path callAI runs at most twice per import, the corrective
\* round is started only after a first round with at least one fidelity
\* warning, and when the loop ends every fidelity warning of the final round
\* is in the returned errors list.
C1_AtMostOneCorrection ==
    /\ [](aiCalls <= 2 /\ correctionAttempt <= 1)
    /\ [][aiCalls' > aiCalls /\ aiCalls >= 1
            => fidelityWarnings # <<>> /\ correctionAttempt = 0 /\ aiCalls = 1]_vars
    /\ [](aiOutcome = "returned" /\ pc = "done"
            => \A i \in 1..Len(fidelityWarnings) :
                   \E j \in 1..Len(errors) : errors[j] = fidelityWarnings[i])

\* C1 witness: the cap was reached with a warning left, which is reported
C1_Witness ==
    /\ pc = "done" /\ aiOutcome = "returned" /\ aiCalls = 2
    /\ fidelityWarnings # <<>>
    /\ \E j \in 1..Len(errors) : errors[j] = fidelityWarnings[1]

\* C2 (as claimed): once the first round has produced a candidate, a
\* corrective round that fails does not block the import: the import
\* returns and stores extracted problems.
C2_FailureKeepsProblems ==
    (pc = "done" /\ firstCount > 0 /\ aiOutcome = "threw")
        => (imported > 0 /\ db.problems # <<>>)

\* C3 (as claimed): a model-not-found failure on model i is followed at
\* once by a call on model i+1 with its full budget, without a sleep, and
\* callAI does not throw unless model i is the last one.
C3_NotFoundAdvances ==
    [][(CallFailed /\ NotFoundClass(lastErr'))
         => IF model < 5
            THEN pc' = "call" /\ model' = model + 1 /\ attempt' = 0 /\ sleepMs' = 0
            ELSE CallAIThrew]_vars

\* C4 (as claimed): an error of the class "other" makes callAI throw at
\* once, without a sleep and without another call.
C4_OtherFatalAtOnce ==
    [][(CallFailed /\ OtherClass(lastErr')) => CallAIThrew]_vars

\* C4 (amended): an error of the class "other" is followed by a sleep of
\* 2000 ms; after it the same model is called again if the failure was on
\* its first or second attempt, and callAI throws that error, with no
\* further call, if it was on its third.
C4_OtherRetriedThenFatal ==
    /\ [][(CallFailed /\ OtherClass(lastErr'))
            => pc' = "sleep" /\ sleepMs' = 2000 /\ model' = model
               /\ attempt' = attempt /\ aiOutcome' = "none"]_vars
    /\ [][(pc = "sleep" /\ OtherClass(lastErr) /\ pc' # "sleep")
            => IF attempt < 2
               THEN pc' = "call" /\ model' = model /\ attempt' = attempt + 1
               ELSE CallAIThrew /\ pc' = "commit"
                    /\ errors' = Append(errors, Msg("ai_error", 0, lastErr, ""))]_vars

\* C4 witness: callAI threw an error of the class "other" on a third attempt
C4_Witness ==
    /\ aiOutcome = "threw" /\ OtherClass(lastErr) /\ attempt = 2 /\ modelCalls = 3
    /\ errors = <<Msg("ai_error", 0, lastErr, "")>>

\* C5 (as claimed): when the third attempt on a model fails rate-limited,
\* callAI goes on with the next model and throws only on the last model.
C5_RateLimitExhaustionAdvances ==
    [][(CallFailed /\ RateLimitedClass(lastErr') /\ attempt = 2)
         => IF model < 5
            THEN pc' = "call" /\ model' = model + 1 /\ attempt' = 0
            ELSE CallAIThrew]_vars

\* C6: a rate-limited failure on the first or second attempt is followed by
\* a sleep of 20000 ms and a retry on the same model; no model is called
\* more than 3 times; models are called in list order; after a successful
\* call callAI makes no further call.
C6_RateLimitedRetriesSameModel ==
    /\ [][(CallFailed /\ RateLimitedClass(lastErr') /\ attempt < 2)
            => pc' = "sleep" /\ sleepMs' = 20000 /\ model' = model
               /\ attempt' = attempt]_vars
    /\ [][(pc = "sleep" /\ RateLimitedClass(lastErr) /\ pc' # "sleep")
            => pc' = "call" /\ model' = model /\ attempt' = attempt + 1]_vars
    /\ [](modelCalls <= 3)
    /\ [][lastModel' # lastModel
            => \/ lastModel' = lastModel + 1 /\ lastModel' <= 5
               \/ lastModel' = 0 /\ aiCalls' = aiCalls + 1]_vars
    /\ [][CallSucceeded => pc' \notin {"call", "sleep"} /\ aiCalls' = aiCalls]_vars

\* C6 witness: the second model sleeps after a rate-limited failure of its
\* second attempt
C6_Witness ==
    pc = "sleep" /\ RateLimitedClass(lastErr) /\ attempt = 1 /\ model = 2
    /\ modelCalls = 2 /\ sleepMs = 20000

\* C7 (as claimed): with useAI and a key without entries the import throws
\* a validation error before any backend call and any committed write.
C7_AIRequiresKey ==
    (useAI /\ pc # "start" /\ DOMAIN answerMap = {})
        => (pc = "thrown" /\ aiCalls = 0 /\ db = InitialDb)

\* a block has no entry in the key
KeyIncomplete ==
    \E i \in 1..Len(problems) : problems[i].number \notin DOMAIN answerMap

\* C8 (as claimed): a no-AI import whose key lacks the entry of a block
\* never returns a result; nothing is stored.
C8_NoPartialNoAIImport ==
    (~useAI /\ KeyIncomplete) => (pc # "done" /\ db.problems = <<>>)

\* every block has a key entry with a value
KeyComplete ==
    \A i \in 1..Len(problems) :
        /\ i \in DOMAIN answerMap
        /\ ExpectedValue(answerMap[i]) # NULL

\* C9: a no-AI import of K blocks with a parseable key entry for each of
\* 1..K stores exactly K problems in block order, the i-th with the raw
\* text of block i as question and the value of key entry i as answer,
\* and reports no error.
C9_NoAICompleteKey ==
    (~useAI /\ pc = "done" /\ KeyComplete)
        => /\ imported = Len(problems)
           /\ Len(db.problems) = Len(problems)
           /\ \A i \in 1..Len(problems) :
                  /\ db.problems[i].question = problems[i].raw
                  /\ db.problems[i].answer = ExpectedValue(answerMap[i])
           /\ errors = <<>>

\* C9 witness: a no-AI import of two blocks with a complete key is done
C9_Witness ==
    /\ ~useAI /\ pc = "done" /\ KeyComplete /\ Len(problems) = 2
    /\ Len(db.problems) = 2
    /\ db.problems[2].answer = Val(4, 1)

\* C10: in AI mode a stored candidate whose number has a key entry has the
\* value of that entry as answer, whatever the backend answered; the answer
\* of the backend (or 0) is stored only for numbers without key entry.
C10_KeyAnswerWins ==
    (useAI /\ pc = "done")
        => \A i \in 1..Len(db.problems) :
               LET row == db.problems[i]
               IN IF row.source \in DOMAIN answerMap
                  THEN row.answer = ExpectedValue(answerMap[row.source])
                  ELSE row.answer \in {Zero} \cup {ExpectedValue(it.answer) : it \in Items}

\* C10 witness: the backend answered 42 for problem 1, the key says 7, and
\* 7 is stored
C10_Witness ==
    /\ useAI /\ pc = "done" /\ 1 \in DOMAIN answerMap
    /\ \E i \in 1..Len(db.problems) :
           /\ db.problems[i].source = 1
           /\ db.problems[i].question = <<SumQ>>
           /\ db.problems[i].answer = Val(7, 1)

\* errors holds an entry about the answer of problem num
AnswerErrorFor(num) ==
    \E j \in 1..Len(errors) :
        errors[j].kind = "invalid_answer" /\ errors[j].num = num

\* C11 (as claimed): an AI import never stores a problem with the fallback
\* answer 0 without an error recorded for that problem.
C11_ZeroOnlyWithError ==
    (useAI /\ pc = "done")
        => \A i \in 1..Len(db.problems) :
               db.problems[i].answer = Zero => AnswerErrorFor(db.problems[i].source)

\* the number of candidate i of the response: its number field, else its
\* position
NumOf(i) == IF arr[i].hasNum THEN arr[i].number ELSE i

\* the answer text of candidate i: the key entry of its number, else the
\* answer of the backend
AnswerTextOf(i) ==
    IF NumOf(i) \in DOMAIN answerMap THEN answerMap[NumOf(i)] ELSE arr[i].answer

\* candidate i has a non-empty answer text that is no number
Unparseable(i) == AnswerTextOf(i) # "" /\ ExpectedValue(AnswerTextOf(i)) = NULL

\* candidate i has question text
HasQuestion(i) == \E j \in 1..Len(arr[i].questionLatex) : arr[i].questionLatex[j].k # "ws"

\* the candidates of the response that are to be returned
Kept == {i \in 1..Len(arr) : ~Unparseable(i) /\ HasQuestion(i)}

\* the k-th kept candidate
KeptAt(k) == CHOOSE i \in Kept : Cardinality({j \in Kept : j < i}) = k - 1

NamedInErrors(num) == \E j \in 1..Len(errors) : errors[j].num = num

\* a row of problem num was stored
StoredAs(num) == \E i \in 1..Len(db.problems) : db.problems[i].source = num

\* C13 (as claimed): when the import returns, every candidate (AI) or block
\* (no-AI) that was dropped, skipped or stored with a defaulted answer is
\* named in errors, and every candidate or block is stored or named.
C13_ErrorsNameEveryDegraded ==
    /\ (useAI /\ pc = "done" /\ aiOutcome = "returned")
          => \A i \in 1..Len(arr) :
                 /\ (Unparseable(i) \/ ~HasQuestion(i) \/ AnswerTextOf(i) = "")
                       => NamedInErrors(NumOf(i))
                 /\ StoredAs(NumOf(i)) \/ NamedInErrors(NumOf(i))
    /\ (~useAI /\ pc = "done")
          => \A i \in 1..Len(problems) :
                 StoredAs(problems[i].number) \/ NamedInErrors(problems[i].number)

\* the problem markers of the trimmed text
Markers == {i \in 1..Len(text) : text[i].k = "num"}

\* C14: the blocks of splitIntoProblems are numbered 1, 2, ..., K in order,
\* whatever the numerals of their markers; each starts at a marker and is
\* longer than 10 characters; there are at most as many as markers, and
\* none for a text without marker.
C14_BlocksNumberedInSequence ==
    (pc # "start" /\ failure # "no_text")
        => /\ problems = splitIntoProblems(text)
           /\ \A i \in 1..Len(problems) :
                  /\ problems[i].number = i
                  /\ TextLen(problems[i].raw) > 10
                  /\ problems[i].raw[1].k = "num"
           /\ Len(problems) <= Cardinality(Markers)
           /\ Markers = {} => problems = <<>>

\* C14 witness: the block of marker "1." was too short and discarded, the
\* block of marker "2." is block 1
C14_Witness ==
    /\ pc # "start" /\ Cardinality(Markers) = 2
    /\ Len(problems) = 1
    /\ problems[1].number = 1
    /\ problems[1].raw[1] = NumTok(2)

\* C15: when importPdfToDatabase has thrown, no row it wrote is committed; a
\* call that opened a transaction ends with one COMMIT and no ROLLBACK
\* (return) or one ROLLBACK and no COMMIT (throw) and one release of the
\* client; before the end nothing is committed and the client is held.
C15_FailedImportNotApplied ==
    /\ pc = "thrown" => db = InitialDb
    /\ (client.begun = 1 /\ pc = "done")
          => (client.commits = 1 /\ client.rollbacks = 0 /\ client.releases = 1)
    /\ (client.begun = 1 /\ pc = "thrown")
          => (client.commits = 0 /\ client.rollbacks = 1 /\ client.releases = 1)
    /\ pc \notin {"done", "thrown"}
          => (db = InitialDb /\ client.commits = 0 /\ client.rollbacks = 0
              /\ client.releases = 0)
    /\ client.releases = client.connected \/ pc \notin {"done", "thrown"}

\* C15 witness: the import threw after it had stored problems in its
\* transaction; the transaction was rolled back and the client released
C15_Witness ==
    /\ pc = "thrown" /\ failure = "db_error" /\ imported > 0
    /\ client.begun = 1 /\ client.rollbacks = 1 /\ client.releases = 1
    /\ db = InitialDb

\* the tables after the calls of order ran one after the other: each call
\* that committed found or created the folder of its name and stored its
\* problem in it
RECURSIVE SerialRun(_, _)
SerialRun(order, tables) ==
    IF order = <<>> THEN tables
    ELSE LET i == Head(order)
             name == imports[i].name
             found == {f \in tables.folders : f.name = name}
             fid == IF found = {} THEN tables.nextFolderId
                    ELSE CHOOSE id \in {f.id : f \in found} : TRUE
         IN IF imports[i].pc # "done" THEN SerialRun(Tail(order), tables)
            ELSE SerialRun(Tail(order),
                     [folders |-> tables.folders \cup {[id |-> fid, name |-> name]},
                      nextFolderId |-> IF found = {} THEN tables.nextFolderId + 1
                                       ELSE tables.nextFolderId,
                      tags |-> TagNames,
                      problems |-> tables.problems \cup {[source |-> i, folder |-> fid]}])

\* the rows of the tables, without the position of the id sequence
Rows(tables) == [folders |-> tables.folders, tags |-> tables.tags,
                 problems |-> tables.problems]

\* C16 (as claimed): when two concurrent imports have both returned, the
\* stored rows are those of running them one after the other in some
\* order; with the same folder name there is one folder row of that name
\* and it holds the problems of both.
C16_ConcurrentImportsSerializable ==
    (imports[1].pc = "done" /\ imports[2].pc = "done")
        => /\ Rows(committed) \in {Rows(SerialRun(<<1, 2>>, EmptyTables)),
                                   Rows(SerialRun(<<2, 1>>, EmptyTables))}
           /\ imports[1].name = imports[2].name
                 => /\ Cardinality({f \in committed.folders :
                                       f.name = imports[1].name}) = 1
                    /\ Cardinality({r.folder : r \in committed.problems}) = 1

WallClockBudgetMs == 300000

\* the import ended with a timeout-classified error
TimedOut == \E j \in 1..Len(errors) : errors[j].kind = "timeout"

\* C17 (as claimed): the time slept by one import, the pending timer
\* included, stays within five minutes, or the import has aborted with a
\* timeout error.
C17_SleepWithinBudget ==
    sleptMs + sleepMs <= WallClockBudgetMs \/ TimedOut

\* a finite number
Finite(v) == v.t = "number" /\ v.d # 0

\* the answer texts of the state: the entries of the key and the answers of
\* the backend
AnswerTexts ==
    {answerMap[n] : n \in DOMAIN answerMap} \cup {arr[i].answer : i \in 1..Len(arr)}

\* C18 (as claimed): parseAnswerToNumber returns null for the empty text,
\* for a text the evaluator rejects and for a result that is not finite;
\* any other value it returns, and any answer stored from it, is a finite
\* number.
C18_NormalizedAnswerFinite ==
    /\ parseAnswerToNumber("") = NULL
    /\ \A a \in AnswerTexts :
           /\ evaluate(RewriteRadicals(a)) = Thrown => parseAnswerToNumber(a) = NULL
           /\ parseAnswerToNumber(a) = NULL \/ Finite(parseAnswerToNumber(a))
    /\ \A i \in 1..Len(db.problems) : Finite(db.problems[i].answer)

\* the text callAI returned last has been parsed into arr
Parsed == parseCalls.parses > 0 /\ content.syntax # "garbage"

\* C19 (as claimed): for a response that is an array whose strings hold
\* LaTeX commands written with a single backslash, the parsed array holds,
\* in the same place, each command with its backslash, whatever its name.
C19_SingleBackslashCommandsKept ==
    (Parsed /\ content.isArray)
        => /\ Len(arr) = Len(content.items)
           /\ \A i \in 1..Len(arr) :
                  /\ Len(arr[i].questionLatex) = Len(content.items[i].questionLatex)
                  /\ \A j \in 1..Len(arr[i].questionLatex) :
                         LET written == content.items[i].questionLatex[j]
                         IN IF written.k = "rawcmd"
                            THEN arr[i].questionLatex[j] = LitCmd(written.s)
                            ELSE arr[i].questionLatex[j] = written

\* C20 (as claimed): a text that JSON.parse accepts is parsed once and not
\* repaired; otherwise it is repaired once and parsed at most once more;
\* when that fails the round ends with an invalid-JSON error and nothing
\* of the response is stored; a text that is a single object gives the
\* one-element array of that object.
C20_ParseOnceRepairOnce ==
    parseCalls.parses > 0
        => /\ content.syntax = "strict" => parseCalls = [parses |-> 1, repairs |-> 0]
           /\ content.syntax = "loose" => parseCalls = [parses |-> 2, repairs |-> 1]
           /\ content.syntax = "garbage"
                 => /\ parseCalls.repairs = 1 /\ parseCalls.parses <= 2
                    /\ aiOutcome = "threw"
                    /\ errors = <<Msg("invalid_json", 0, "", "")>>
                    /\ imported = 0 /\ db.problems = <<>>
           /\ (Parsed /\ ~content.isArray)
                 => /\ Len(arr) = 1
                    /\ arr[1].hasNum = content.items[1].hasNum
                    /\ arr[1].number = content.items[1].number
                    /\ arr[1].answer = content.items[1].answer
                    /\ arr[1].topics = content.items[1].topics

\* what the fidelity loop compared: the source block and the candidate
SourceRaw == problems[1].raw
Candidate == results[1].question
Letters(frags) == {ConcatCircles(frags)[i] : i \in 1..Len(ConcatCircles(frags))}
CircleWarningsFor(letter) ==
    {i \in 1..Len(fidelityWarnings) :
        /\ fidelityWarnings[i].kind \in {"circle_renamed", "circle_missing"}
        /\ fidelityWarnings[i].a = letter}

\* C21: for every "Circle X" of the source block whose letter the candidate
\* does not mention, validateFidelity emits exactly one warning, with the
\* problem number and the source letter, that names a differing circle letter
\* of the candidate when the candidate mentions one; a letter the candidate
\* mentions gets no warning, so no circle warning is emitted when the
\* candidate mentions every source letter.
C21_CircleWarningPerMissingLetter ==
    pc = "validated" =>
        /\ \A x \in Letters(SourceRaw) \ Letters(Candidate) :
               /\ Cardinality(CircleWarningsFor(x)) = 1
               /\ \A i \in CircleWarningsFor(x) :
                      /\ fidelityWarnings[i].num = results[1].number
                      /\ IF Letters(Candidate) # {}
                         THEN /\ fidelityWarnings[i].kind = "circle_renamed"
                              /\ fidelityWarnings[i].b \in Letters(Candidate) \ {x}
                         ELSE fidelityWarnings[i].kind = "circle_missing"
        /\ \A i \in 1..Len(fidelityWarnings) :
               fidelityWarnings[i].kind \in {"circle_renamed", "circle_missing"}
                   => fidelityWarnings[i].a \in Letters(SourceRaw) \ Letters(Candidate)

\* a source that mentions Circle A twice and Circle B, a candidate that
\* mentions Circle C and Circle A: one warning, for B, naming C
C21_Witness ==
    /\ pc = "validated"
    /\ SourceRaw = <<TwoCircles, TwoCircles>>
    /\ Candidate = <<CircleCA>>
    /\ results[1].number = 2
    /\ fidelityWarnings = <<Msg("circle_renamed", 2, "b", "c")>>

\* the tokens of three or more characters of the source block
LongTokens(frags) == {w \in extractCritical(frags).words : Len(w) >= 3}
HasWarning(kind) == \E i \in 1..Len(fidelityWarnings) : fidelityWarnings[i].kind = kind

\* C22: validateFidelity emits the low-overlap warning exactly when the source
\* has a token of three or more characters and fewer than 60% of its distinct
\* such tokens occur among the candidate's tokens; at exactly 60%, or without
\* such a token, it emits none.
C22_LowOverlapBelowSixtyPercent ==
    pc = "validated" =>
        (HasWarning("low_overlap")
            <=> /\ LongTokens(SourceRaw) # {}
                /\ 10 * Cardinality(LongTokens(SourceRaw) \cap extractCritical(Candidate).words)
                       < 6 * Cardinality(LongTokens(SourceRaw)))

\* two of the five source tokens occur in the candidate: 40%
C22_Witness ==
    /\ pc = "validated"
    /\ SourceRaw = <<Total5>>
    /\ Candidate = <<Sum3>>
    /\ fidelityWarnings = <<Msg("low_overlap", results[1].number, "", "")>>

\* the numeric literals of a fragment, one entry per occurrence
Occurrences(tok) ==
    IF tok = Repeats THEN <<5, 5, 5, 7>>
    ELSE IF tok = Fives THEN <<5, 5, 5>>
    ELSE IF tok = Short \/ tok = SumQ THEN <<12, 30>>
    ELSE IF tok.numbers = {} THEN <<>>
    ELSE <<CHOOSE n \in tok.numbers : TRUE>>

RECURSIVE Literals(_)
Literals(frags) ==
    IF frags = <<>> THEN <<>> ELSE Occurrences(Head(frags)) \o Literals(Tail(frags))

\* the occurrences of source literals that appear nowhere in the candidate
MissingOccurrences ==
    SelectSeq(Literals(SourceRaw), LAMBDA n : ~Includes(Candidate, n))

\* C23: validateFidelity emits the missing-numbers warning exactly when more
\* than 30% of the numeric literals of the source block, every occurrence
\* counted, appear nowhere in the candidate text.
C23_MissingNumbersOverMultiset ==
    pc = "validated" =>
        (HasWarning("numbers_missing")
            <=> 10 * Len(MissingOccurrences) > 3 * Len(Literals(SourceRaw)))

\* the positions of the section markers of the document that lie beyond the
\* minimum offset
Offset(t, i) == TextLen(SubSeq(t, 1, i - 1))
Markers500 == {i \in 1..Len(pdf) : pdf[i].k = "sec" /\ Offset(pdf, i) > MinSectionOffset}
FirstMarker500 == CHOOSE i \in Markers500 : \A j \in Markers500 : i <= j
Trimmed == pc # "start" /\ failure # "no_text"

\* C24: when a section marker occurs beyond offset 500, the trimmed text is
\* the prefix of the document that ends just before the first such marker,
\* also when another marker occurs within the first 500 characters; without
\* a marker the text is unchanged; the trimmed text is always a prefix.
C24_TrimmedAtFirstMarkerBeyondOffset ==
    Trimmed =>
        /\ Markers500 # {} => text = SubSeq(pdf, 1, FirstMarker500 - 1)
        /\ (\A i \in 1..Len(pdf) : pdf[i].k # "sec") => text = pdf
        /\ Len(text) <= Len(pdf) /\ text = SubSeq(pdf, 1, Len(text))

\* the topics stored for problem id: the topic column and the tag links
StoredTopics(d, id) == {d.problems[id].topic} \cup {l[2] : l \in {m \in d.problemTags : m[1] = id}}

\* C25: every problem an AI import stores has at least one topic, and every
\* topic stored for it, in the topic column or as a tag link, is in the
\* allowed tag list of the import; a topic of the backend outside the list
\* is never stored.
C25_StoredTopicsAllowed ==
    useAI /\ pc \in {"commit", "done"} =>
        \A id \in 1..Len(tx.problems) :
            /\ \E l \in tx.problemTags : l[1] = id
            /\ StoredTopics(tx, id) \subseteq
                   {AllowedTagNames(tx)[i] : i \in 1..Len(AllowedTagNames(tx))}

\* an import committed a problem whose candidate also named a topic outside
\* the list
C25_Witness ==
    /\ useAI
    /\ pc = "done"
    /\ Len(db.problems) > 0
    /\ results[1].topics = <<"Fractals", "Geometry">>
    /\ StoredTopics(db, 1) = {"Geometry"}

\* the answer texts of the closed grammar: numeric literals, + - * / ^,
\* parentheses, sqrt and the radical shorthands
ClosedGrammarTexts == {"7", "42", "0", "3/4", "1/0", "0/0", "sqrt16", "2sqrt9"}

\* C26: parseAnswerToNumber yields a number only for a text of the closed
\* answer grammar; a text with another identifier, a function call or an
\* assignment yields null.
C26_NumberOnlyFromClosedGrammar ==
    \A a \in AnswerTexts :
        parseAnswerToNumber(a) # NULL => a \in ClosedGrammarTexts

\* 2 extraction rounds x 5 models x 3 attempts
MaxBackendCalls == (MAX_CORRECTIONS + 1) * NumModels * MaxAttempts
Ended == pc \in {"done", "thrown"}

\* C27: when every backend call settles and every sleep ends, an AI import
\* ends, by a result or by an error; it makes at most 2 x 5 x 3 = 30 backend
\* calls; a backend call is in flight only while no sleep of the import is
\* pending, and calls settle one at a time.
C27_TerminatesWithinThirtyCalls ==
    /\ <>Ended
    /\ [](backendCalls <= MaxBackendCalls)
    /\ [](pc = "call" => sleepMs = 0)
    /\ [][backendCalls' # backendCalls
            => pc = "call" /\ sleepMs = 0 /\ backendCalls' = backendCalls + 1]_vars

\* both extraction rounds used every attempt on every model
C27_Witness ==
    /\ Ended
    /\ aiCalls = 2
    /\ backendCalls = MaxBackendCalls

\* C28: every kept candidate is fidelity-checked against the source block
\* whose sequence number is the candidate's number, also when an earlier
\* candidate of the response was dropped and when the backend's numbers are
\* not 1..n in order: the block the loop pairs with results[i] is
\* sourceProblems[i].
C28_CheckedAgainstOwnBlock ==
    \A i \in 1..Len(results) :
        i <= Len(problems) => problems[i].number = results[i].number

AttemptsOf(student) ==
    {k \in 1..Len(store.attempts) : store.attempts[k].student = student}
HistoryOf(student) ==
    {k \in 1..Len(store.history) : store.history[k].user = student}

\* C29: for every student at most one submission of the test takes effect:
\* at most one test_attempts row is committed, and the student's ELO, the
\* tag ELO, the problem's ELO and counters and the elo_history rows are
\* changed by the committed submissions only, one per student, also when
\* the student submits twice concurrently; a second submission that is
\* rejected or fails leaves the committed rows unchanged.
C29_OneSubmissionTakesEffect ==
    /\ [](\A s \in Students :
             /\ Cardinality(AttemptsOf(s)) <= 1
             /\ Cardinality(HistoryOf(s)) = Cardinality(AttemptsOf(s))
             /\ \A k \in AttemptsOf(s) :
                    /\ store.userElo[s] = store.attempts[k].eloAfter
                    /\ \E h \in HistoryOf(s) :
                           /\ store.history[h].newUser = store.attempts[k].eloAfter
                           /\ store.tagElo[s] # 0
             /\ AttemptsOf(s) = {} => store.userElo[s] = 1500 /\ store.tagElo[s] = 0)
    /\ [](/\ store.problem.used = Len(store.attempts)
          /\ Len(store.history) = Len(store.attempts)
          /\ Len(store.attempts) = 0 => store.problem = InitialStore.problem)
    /\ [][\A i \in 1..NumSubmits :
              submits'[i].pc \in {"rejected", "failed"} /\ submits'[i].pc # submits[i].pc
                  => store' = store]_vars

\* a student submitted twice concurrently: one submission is committed, the
\* other failed on the constraint after it had graded the problem
C29_Witness ==
    /\ submits[1].student = submits[2].student
    /\ submits[1].pc = "done"
    /\ submits[2].pc = "failed"
    /\ submits[2].userElo = store.userElo[submits[2].student]
    /\ Len(store.attempts) = 1
    /\ store.problem.used = 1

\* C30: once a submission has committed a snapshot, problem_elo_snapshot is
\* never written again, and every submission of the test is graded against
\* the ELO values of that snapshot, also when two students submit the test
\* concurrently for the first time.
C30_SnapshotFrozen ==
    /\ [](store.snapshotWrites <= 1)
    /\ [][store.snapshot # 0 => store'.snapshot = store.snapshot]_vars
    /\ [](\A h \in 1..Len(store.history) :
              store.history[h].oldProblem = store.history[1].oldProblem)

====
